---- MODULE Spec2Model ----
(***************************************************************************)
(* A model of settingsfile-rs: the path-addressed tree of typed values of  *)
(* src/structs/settings.rs (Settings) with get_value, set_value and        *)
(* delete_key, its flatten / from_flat pair and the `+` and `+=` operators *)
(* built on them, its keys and is_flat, and the two-tier ShadowSettings of *)
(* src/structs/shadowsettings.rs with its reads, writes and loads.         *)
(*                                                                         *)
(* A String is a sequence of one-character strings, so that                *)
(* key_path.split(".") and format!("{}.{}",parent,key) are computed and    *)
(* not assumed.  A HashMap<String,Type> is a function whose domain is the  *)
(* set of its keys.  An Option is a sequence of length at most one.        *)
(***************************************************************************)
EXTENDS Integers, Sequences, FiniteSets, TLC

(***************************************************************************)
(* Bounds of the model.                                                    *)
(***************************************************************************)
\* the largest number of segments of a key path given to an operation
MaxDepth == 3
\* the number of set_value / delete_key calls made on one Settings
MaxOps == 2
\* the same two bounds for the two operands of a merge taken together
MaxMergeDepth == 2
MaxMergeOps == 2
\* the number of set_value / delete_key calls made before a Settings is read
MaxReadOps == 3
\* the number of calls made on one ShadowSettings
MaxShadowOps == 2
\* the number of set_value / delete_key calls made before a Settings is
\* saved or loaded
MaxFileOps == 2

(***************************************************************************)
(* Strings.                                                                *)
(***************************************************************************)
Dot == "."

\* the names used as path segments
Keys == { <<"a">>, <<"b">> }

\* split, the empty segments being left out (no segment at all for "")
split_skipping_empty(key_path) ==
    LET RECURSIVE scan(_, _, _)
        scan(i, cur, acc) ==
            IF i > Len(key_path)
            THEN IF cur = <<>> THEN acc ELSE Append(acc, cur)
            ELSE IF key_path[i] = Dot
            THEN scan(i + 1, <<>>, IF cur = <<>> THEN acc ELSE Append(acc, cur))
            ELSE scan(i + 1, Append(cur, key_path[i]), acc)
    IN scan(1, <<>>, <<>>)

\* str::split(".") : always at least one segment, empty segments are kept
split(key_path) ==
    LET RECURSIVE scan(_, _, _)
        scan(i, cur, acc) ==
            IF i > Len(key_path) THEN Append(acc, cur)
            ELSE IF key_path[i] = Dot THEN scan(i + 1, <<>>, Append(acc, cur))
            ELSE scan(i + 1, Append(cur, key_path[i]), acc)
    IN scan(1, <<>>, <<>>)

\* format!("{}.{}", parent_key, key)
format_key(parent_key, key) == parent_key \o <<Dot>> \o key

\* the key path written by a caller for the segments segs (segs non empty)
RECURSIVE join(_)
join(segs) ==
    IF Len(segs) = 1 THEN segs[1]
    ELSE format_key(join(SubSeq(segs, 1, Len(segs) - 1)), segs[Len(segs)])

\* all the sequences over S of length 1 .. n
RECURSIVE SeqsUpTo(_, _)
SeqsUpTo(S, n) ==
    IF n = 0 THEN {}
    ELSE LET shorter == SeqsUpTo(S, n - 1)
         IN { <<s>> : s \in S } \cup shorter
              \cup { Append(q, s) : q \in shorter, s \in S }

\* the key paths the operations are called with
KeyPaths == { join(segs) : segs \in SeqsUpTo(Keys, MaxDepth) }

\* the key paths the operands of a merge are built with
MergeKeyPaths == { join(segs) : segs \in SeqsUpTo(Keys, MaxMergeDepth) }

(***************************************************************************)
(* Type (src/structs/types.rs) and Option.                                 *)
(***************************************************************************)
TypeText(s)       == [kind |-> "Text", text |-> s]
TypeSwitch(b)     == [kind |-> "Switch", switch |-> b]
TypeInt(n)        == [kind |-> "Int", int |-> n]
TypeComplex(hash) == [kind |-> "Complex", hash |-> hash]
TypeNone          == [kind |-> "None"]

is_complex(t) == t.kind = "Complex"

None    == <<>>
Some(t) == <<t>>

\* HashMap::new, insert, remove
HashNew == <<>>
HashInsert(hash, key, value) ==
    [k \in (DOMAIN hash) \cup {key} |-> IF k = key THEN value ELSE hash[k]]
HashRemove(hash, key) == [k \in (DOMAIN hash) \ {key} |-> hash[k]]
HashGet(hash, key) == IF key \in DOMAIN hash THEN Some(hash[key]) ELSE None

(***************************************************************************)
(* SupportedType::wrap (src/traits/supportedtype.rs).  A native value is   *)
(* tagged with its Rust type.                                              *)
(***************************************************************************)
NativeI32(n)  == [native |-> "i32", i32 |-> n]
NativeBool(b) == [native |-> "bool", bool |-> b]
NativeUnit    == [native |-> "unit"]
NativeHashMap(hash) == [native |-> "HashMap", hash |-> hash]
NativeType(t) == [native |-> "Type", type |-> t]

wrap(value) ==
    CASE value.native = "i32"  -> TypeInt(value.i32)
      [] value.native = "bool" -> TypeSwitch(value.bool)
      [] value.native = "unit" -> TypeNone
      [] value.native = "HashMap" -> TypeComplex(value.hash)
      [] value.native = "Type" -> value.type

\* the values the operations are called with
Values == { NativeI32(23), NativeBool(TRUE) }

\* the values the Settings given to flatten is built with
FlatValues == Values \cup { NativeHashMap(HashNew) }

(***************************************************************************)
(* Settings::get_value                                                     *)
(***************************************************************************)
\* get_value, looking the whole key path up in the top-level map
get_value_top(global, key_path) ==
    IF key_path \in DOMAIN global THEN Some(global[key_path]) ELSE None

\* Settings::get_value
get_value(global, key_path) ==
    LET path_tree == split(key_path)
        RECURSIVE walk(_, _)
        walk(i, subtree) ==
            IF i > Len(path_tree) THEN Some(subtree)
            ELSE IF is_complex(subtree)
                 THEN IF path_tree[i] \in DOMAIN subtree.hash
                      THEN walk(i + 1, subtree.hash[path_tree[i]])
                      ELSE None
                 ELSE None
    IN IF path_tree[1] \in DOMAIN global
       THEN walk(2, global[path_tree[1]])
       ELSE None

(***************************************************************************)
(* Settings::set_value                                                     *)
(***************************************************************************)
\* extracted, forgetting the map that is already there
extracted_fresh(part, default) == default

\* extracted, a part that is there being pushed whatever it is
extracted_any(part, default) == IF part # None THEN part[1] ELSE default

\* what the extraction loops push for a part taken out of a map (an Option):
\* the part itself when it is a Complex, otherwise the given default
extracted(part, default) ==
    IF part # None /\ is_complex(part[1]) THEN part[1] ELSE default

\* the extraction loop for i >= 1 : takes path_tree[i] out of the last
\* element of the vector and pushes it (or the default)
RECURSIVE extract(_, _, _, _)
extract(path_tree, i, vec, default) ==
    IF i > Len(path_tree) - 1 THEN vec
    ELSE LET index == Len(vec)
             part == IF is_complex(vec[index])
                     THEN HashGet(vec[index].hash, path_tree[i])
                     ELSE None
             taken == IF is_complex(vec[index])
                      THEN [vec EXCEPT ![index] =
                              TypeComplex(HashRemove(vec[index].hash, path_tree[i]))]
                      ELSE vec
         IN extract(path_tree, i + 1,
                    Append(taken, extracted(part, default)), default)

\* rebuild, inserting each part under the key of its parent
RECURSIVE rebuild_parent_key(_, _)
rebuild_parent_key(path_tree, vec) ==
    IF Len(vec) <= 1 THEN vec
    ELSE LET i == Len(vec)
             temp_part == vec[i]
             rest == SubSeq(vec, 1, i - 1)
         IN rebuild_parent_key(path_tree,
                IF is_complex(rest[i - 1])
                THEN [rest EXCEPT ![i - 1] =
                        TypeComplex(HashInsert(rest[i - 1].hash, path_tree[i - 1], temp_part))]
                ELSE rest)

\* the rebuild loop: the last element is inserted in the one before it
RECURSIVE rebuild(_, _)
rebuild(path_tree, vec) ==
    IF Len(vec) <= 1 THEN vec
    ELSE LET i == Len(vec)
             temp_part == vec[i]
             rest == SubSeq(vec, 1, i - 1)
         IN rebuild(path_tree,
                IF is_complex(rest[i - 1])
                THEN [rest EXCEPT ![i - 1] =
                        TypeComplex(HashInsert(rest[i - 1].hash, path_tree[i], temp_part))]
                ELSE rest)

\* the map left in self.global and the vector after the step i == 0
extract_first(global, path_tree) ==
    IF Len(path_tree) > 1
    THEN [global |-> HashRemove(global, path_tree[1]),
          vec |-> << extracted(HashGet(global, path_tree[1]), TypeComplex(HashNew)) >>]
    ELSE [global |-> global, vec |-> << >>]

set_value(global, key_path, value) ==
    LET path_tree == split(key_path)
        first == extract_first(global, path_tree)
        parts == extract(path_tree, 2, first.vec, TypeComplex(HashNew))
        built == rebuild(path_tree, Append(parts, wrap(value)))
    IN [global |-> HashInsert(first.global, path_tree[1], built[1]),
        result |-> "Ok"]

(***************************************************************************)
(* Settings::delete_key                                                    *)
(***************************************************************************)
\* delete_key, reading the final key with get instead of remove
delete_key_get(global, key_path) ==
    LET path_tree == split(key_path)
        n == Len(path_tree)
        first == extract_first(global, path_tree)
        parts == extract(path_tree, 2, first.vec, TypeNone)
        index == Len(parts)
        direct == n = 1
        nested == ~direct /\ Len(parts) > 0 /\ n > 0 /\ is_complex(parts[index])
        returned_value ==
            IF direct THEN HashGet(first.global, key_path)
            ELSE IF nested THEN HashGet(parts[index].hash, path_tree[n])
            ELSE None
    IN [global |-> IF Len(parts) > 0
                   THEN HashInsert(first.global, path_tree[1], parts[1])
                   ELSE first.global,
        returned |-> returned_value]

delete_key(global, key_path) ==
    LET path_tree == split(key_path)
        n == Len(path_tree)
        first == extract_first(global, path_tree)
        parts == extract(path_tree, 2, first.vec, TypeNone)
        index == Len(parts)
        direct == n = 1
        nested == ~direct /\ Len(parts) > 0 /\ n > 0 /\ is_complex(parts[index])
        returned_value ==
            IF direct THEN HashGet(first.global, key_path)
            ELSE IF nested THEN HashGet(parts[index].hash, path_tree[n])
            ELSE None
        removed ==
            IF nested
            THEN [parts EXCEPT ![index] =
                    TypeComplex(HashRemove(parts[index].hash, path_tree[n]))]
            ELSE parts
        global1 == IF direct THEN HashRemove(first.global, key_path)
                   ELSE first.global
    IN [global |-> IF Len(removed) > 0
                   THEN HashInsert(global1, path_tree[1], removed[1])
                   ELSE global1,
        returned |-> returned_value]

(***************************************************************************)
(* Type::flatten, Settings::flatten, is_flat, from_flat, keys              *)
(***************************************************************************)
(* The index arithmetic of get_value, set_value and delete_key: what each  *)
(* of them subtracts from and indexes into, as pairs <<len, index>> of the *)
(* length of the vector at that moment and the index used (len - 1 being   *)
(* the pair <<len, len - 1>>).                                             *)
(***************************************************************************)
\* an index below zero (usize underflow) or past the end
out_of_bounds(access) == access[2] < 0 \/ access[2] >= access[1]

\* get_value: path_tree[i] for i in 0..path_tree.len()
get_value_accesses(path_tree) ==
    LET n == Len(path_tree)
    IN { <<n, i>> : i \in 0 .. n - 1 }

\* set_value: path_tree.len()-1, path_tree[i], global.len()-1 and
\* global[index] in the first loop (global holding i parts at step i);
\* global.remove(i), global[i-1] and path_tree[i] in the rebuild;
\* path_tree[0] and global.remove(0) at the end
set_value_accesses(path_tree) ==
    LET n == Len(path_tree)
    IN { <<n, n - 1>> }
       \cup { <<n, i>> : i \in 0 .. n - 2 }
       \cup { <<i, i - 1>> : i \in 1 .. n - 2 }
       \cup { <<i + 1, i>> : i \in 1 .. n - 1 }
       \cup { <<i, i - 1>> : i \in 1 .. n - 1 }
       \cup { <<n, i>> : i \in 1 .. n - 1 }
       \cup { <<n, 0>>, <<1, 0>> }

\* delete_key: the same first loop; then, for more than one segment,
\* global.len()-1, global[index] and path_tree[path_tree.len()-1], and
\* path_tree[0] and global.remove(0) when global is not empty
delete_key_accesses(path_tree) ==
    LET n == Len(path_tree)
    IN { <<n, n - 1>> }
       \cup { <<n, i>> : i \in 0 .. n - 2 }
       \cup { <<i, i - 1>> : i \in 1 .. n - 2 }
       \cup (IF n > 1
             THEN { <<n - 1, n - 2>>, <<n, n - 1>>, <<n, 0>>, <<n - 1, 0>> }
             ELSE {})

\* the call panics on an index or on a subtraction
get_value_panics(key_path) ==
    \E access \in get_value_accesses(split(key_path)) : out_of_bounds(access)
set_value_panics(key_path) ==
    \E access \in set_value_accesses(split(key_path)) : out_of_bounds(access)
delete_key_panics(key_path) ==
    \E access \in delete_key_accesses(split(key_path)) : out_of_bounds(access)

(***************************************************************************)
\* for (key,value) in other { flat.insert(key,value) }
HashInsertAll(flat, other_hash) ==
    [k \in (DOMAIN flat) \cup (DOMAIN other_hash) |->
        IF k \in DOMAIN other_hash THEN other_hash[k] ELSE flat[k]]

\* Type::flatten(&self, parent_key : Option<String>).  The entries of a map
\* are visited one after the other; the keys of the trees of this model hold
\* no dot, so that two entries never give the same flat key and the order of
\* the visit does not show in the result.
RECURSIVE type_flatten(_, _)
type_flatten(t, parent_key) ==
    IF ~is_complex(t) THEN t
    ELSE LET numb == t.hash
             parent(key) == IF parent_key # None
                            THEN format_key(parent_key[1], key)
                            ELSE key
             RECURSIVE each(_, _)
             each(todo, flat) ==
                 IF todo = {} THEN flat
                 ELSE LET key == CHOOSE k \in todo : TRUE
                          flattened == type_flatten(numb[key], Some(parent(key)))
                      IN each(todo \ {key},
                              IF is_complex(flattened)
                              THEN HashInsertAll(flat, flattened.hash)
                              ELSE HashInsert(flat, parent(key), flattened))
         IN TypeComplex(each(DOMAIN numb, HashNew))

\* flatten, leaving each flattened Complex under its top-level key
flatten_nested(global) ==
    LET RECURSIVE each(_, _)
        each(todo, flat_hash) ==
            IF todo = {} THEN flat_hash
            ELSE LET key == CHOOSE k \in todo : TRUE
                     temp_type == type_flatten(global[key], Some(key))
                 IN each(todo \ {key}, HashInsert(flat_hash, key, temp_type))
    IN each(DOMAIN global, HashNew)

\* Settings::flatten (and get_flat_hash): the global map of the flat Settings
flatten(global) ==
    LET RECURSIVE each(_, _)
        each(todo, flat_hash) ==
            IF todo = {} THEN flat_hash
            ELSE LET key == CHOOSE k \in todo : TRUE
                     temp_type == type_flatten(global[key], Some(key))
                 IN each(todo \ {key},
                         IF is_complex(temp_type)
                         THEN HashInsertAll(flat_hash, temp_type.hash)
                         ELSE HashInsert(flat_hash, key, temp_type))
    IN each(DOMAIN global, HashNew)

\* is_flat, the number of entries not being looked at
is_flat_or_empty(global) ==
    ~(\E key \in DOMAIN global : is_complex(global[key]))

\* Settings::is_flat
is_flat(global) ==
    IF \E key \in DOMAIN global : is_complex(global[key]) THEN FALSE
    ELSE Cardinality(DOMAIN global) > 0

\* the orders in which a HashMap with the key set S can be iterated
RECURSIVE Orders(_)
Orders(S) ==
    IF S = {} THEN { <<>> }
    ELSE UNION { { <<k>> \o rest : rest \in Orders(S \ {k}) } : k \in S }

\* keys, taken from self.global and not from the flat Settings
keys_top_level(global, order) ==
    SelectSeq(order, LAMBDA k : k \in DOMAIN global)

\* Settings::keys: the keys of the flat Settings pushed to a Vec, order
\* being the order in which flat.global.keys() yields them
keys(global, order) ==
    LET flat == flatten(global)
    IN SelectSeq(order, LAMBDA k : k \in DOMAIN flat)

\* for (key,value) in hash { target.set_value(&key,&value) }, the entries
\* being met in the given order
RECURSIVE set_each(_, _, _)
set_each(target, hash, order) ==
    IF order = <<>> THEN target
    ELSE set_each(set_value(target, order[1], NativeType(hash[order[1]])).global,
                  hash, Tail(order))

\* from_flat, inserting each entry under its whole key instead of set_value
from_flat_absolute(flat_hash, order) == flat_hash

\* Settings::from_flat, the entries of the flat map being met in the given order
from_flat(flat_hash, order) == set_each(HashNew, flat_hash, order)

\* add, the overlay being made the other way round (self wins)
add_self_wins(self_global, other_global, order) ==
    LET flat_self == flatten(self_global)
        flat_other == flatten(other_global)
    IN from_flat(HashInsertAll(flat_other, flat_self), order)

\* add, forgetting the entries of self
add_other_only(self_global, other_global, order) ==
    LET flat_other == flatten(other_global)
    IN from_flat(flat_other, SelectSeq(order, LAMBDA k : k \in DOMAIN flat_other))

\* impl Add: self + other, from_flat meeting the entries in the given order
add(self_global, other_global, order) ==
    LET flat_self == flatten(self_global)
        flat_other == flatten(other_global)
    IN from_flat(HashInsertAll(flat_self, flat_other), order)

\* impl AddAssign: self += other, flat_other being met in the given order
add_assign(self_global, other_global, order) ==
    set_each(self_global, flatten(other_global), order)

(***************************************************************************)
(* Files.  What an opened file gives is its content; of a content the code *)
(* looks at its length and at what Format::from_str makes of it.           *)
(***************************************************************************)
\* a content of the given length that from_str decodes as decoded (an
\* Option: None when from_str returns an error); read_to_string reads it
Buffer(len, decoded) == [read |-> "Ok", len |-> len, decoded |-> decoded]

\* a file of which read_to_string returns an error
Unreadable == [read |-> "Err", len |-> 0, decoded |-> None]

\* Format::from_str
from_str(buffer) ==
    IF buffer.decoded = None THEN [result |-> "Err"]
    ELSE [result |-> "Ok", hash |-> buffer.decoded[1]]

\* create_from, an empty content being refused as load_from refuses it
create_from_refusing_empty(buffer) ==
    IF buffer.len > 0
    THEN LET hash == from_str(buffer)
         IN IF hash.result = "Err" THEN [result |-> "Err"]
            ELSE [result |-> "Ok", global |-> hash.hash]
    ELSE [result |-> "Err"]

\* Settings::create_from, buffer being what read_to_string reads
create_from(buffer) ==
    IF buffer.read = "Err" THEN [result |-> "Err"]
    ELSE IF buffer.len > 0
    THEN LET hash == from_str(buffer)
         IN IF hash.result = "Err" THEN [result |-> "Err"]
            ELSE [result |-> "Ok", global |-> hash.hash]
    ELSE [result |-> "Ok", global |-> HashNew]

\* load_from, the map being emptied before the content is decoded
load_from_clearing(global, buffer) ==
    IF buffer.read = "Err" THEN [result |-> "Err", global |-> global]
    ELSE IF buffer.len > 0
    THEN LET hash == from_str(buffer)
         IN IF hash.result = "Err" THEN [result |-> "Err", global |-> HashNew]
            ELSE [result |-> "Ok", global |-> hash.hash]
    ELSE [result |-> "Err", global |-> HashNew]

\* Settings::load_from, buffer being what read_to_string reads
load_from(global, buffer) ==
    IF buffer.read = "Err" THEN [result |-> "Err", global |-> global]
    ELSE IF buffer.len > 0
    THEN LET hash == from_str(buffer)
         IN IF hash.result = "Err" THEN [result |-> "Err", global |-> global]
            ELSE [result |-> "Ok", global |-> hash.hash]
    ELSE [result |-> "Err", global |-> global]

\* Settings::load, file being what is found at the path of the
\* configuration: None when File::open fails, Some(content) otherwise
settings_load(global, file) ==
    IF file = None THEN [result |-> "Err", global |-> global]
    ELSE load_from(global, file[1])

(***************************************************************************)
(* The Format a Settings is made with, of which the model keeps what       *)
(* to_string writes: a content that from_str decodes as the map written,   *)
(* and that is empty when the format writes the empty map as no text.      *)
(***************************************************************************)
\* a format that writes the empty map as "{}" (tests/testing_with_ron.rs)
RonFormat == "ron"
\* a format that writes the empty map as "" (tests/testing_with_toml.rs)
TomlFormat == "toml"
Formats == { RonFormat, TomlFormat }

\* the number of entries of a map, those of its Complex values included
RECURSIVE entries(_)
entries(hash) ==
    LET RECURSIVE count(_)
        count(todo) ==
            IF todo = {} THEN 0
            ELSE LET key == CHOOSE k \in todo : TRUE
                 IN 1 + (IF is_complex(hash[key]) THEN entries(hash[key].hash) ELSE 0)
                      + count(todo \ {key})
    IN count(DOMAIN hash)

\* Format::to_string(&self.global): the text of a map, one piece of text
\* for each entry, between braces for the ron format
to_string(config, hash) ==
    Buffer((IF config = RonFormat THEN 2 ELSE 0) + entries(hash), Some(hash))

\* Settings::save_to on a file that has just been created, written being
\* whether file.write returns Ok; it then has written the whole text
save_to(config, global, file, written) ==
    LET settings_string == to_string(config, global)
    IN IF written THEN [result |-> "Ok", file |-> settings_string]
       ELSE [result |-> "Err", file |-> file]

(***************************************************************************)
(* ShadowSettings (src/structs/shadowsettings.rs): global is the map of    *)
(* self.global, local is self.local, None or Some(the map of the local     *)
(* Settings).                                                              *)
(***************************************************************************)
\* get_value, the global tier being asked first
shadow_get_value_global_first(global, local, key_path) ==
    IF get_value(global, key_path) # None THEN get_value(global, key_path)
    ELSE IF local # None THEN get_value(local[1], key_path)
    ELSE None

\* get_value, the Complex of the local tier being returned as it is
shadow_get_value_local_only(global, local, key_path) ==
    IF local # None /\ get_value(local[1], key_path) # None
    THEN get_value(local[1], key_path)
    ELSE get_value(global, key_path)

\* get_value, the global tier winning on the keys of a composite that both
\* tiers hold
shadow_get_value_composite_global(global, local, key_path) ==
    IF local # None
    THEN LET found == get_value(local[1], key_path)
         IN IF found = None THEN get_value(global, key_path)
            ELSE IF is_complex(found[1])
            THEN LET value == found[1].hash
                     in_global == get_value(global, key_path)
                 IN IF in_global # None /\ is_complex(in_global[1])
                    THEN Some(TypeComplex(
                            [k \in (DOMAIN value) \cup (DOMAIN in_global[1].hash) |->
                                IF k \in DOMAIN in_global[1].hash
                                THEN in_global[1].hash[k]
                                ELSE value[k]]))
                    ELSE Some(TypeComplex(value))
            ELSE found
    ELSE get_value(global, key_path)

\* ShadowSettings::get_value
shadow_get_value(global, local, key_path) ==
    IF local # None
    THEN LET found == get_value(local[1], key_path)
         IN IF found = None THEN get_value(global, key_path)
            ELSE IF is_complex(found[1])
            THEN LET value == found[1].hash
                     in_global == get_value(global, key_path)
                 IN IF in_global # None /\ is_complex(in_global[1])
                    THEN Some(TypeComplex(
                            [k \in (DOMAIN value) \cup (DOMAIN in_global[1].hash) |->
                                IF k \in DOMAIN value THEN value[k]
                                ELSE in_global[1].hash[k]]))
                    ELSE Some(TypeComplex(value))
            ELSE found
    ELSE get_value(global, key_path)

\* Settings::get_value_or, the default being returned whatever is stored
get_value_or_default(global, key_path, default_value) == wrap(default_value)

\* Settings::get_value_or
get_value_or(global, key_path, default_value) ==
    LET found == get_value(global, key_path)
    IN IF found # None THEN found[1] ELSE wrap(default_value)

\* ShadowSettings::get_value_or
shadow_get_value_or(global, local, key_path, default_value) ==
    LET found == shadow_get_value(global, local, key_path)
    IN IF found # None THEN found[1] ELSE wrap(default_value)

\* ShadowSettings::get_value_local
get_value_local(local, key_path) ==
    IF local # None THEN get_value(local[1], key_path) ELSE None

\* ShadowSettings::get_value_global
get_value_global(global, key_path) == get_value(global, key_path)

\* set_value_local, a missing local tier being started from the global one
set_value_local_from_global(global, local, key_path, value) ==
    LET r == set_value(IF local # None THEN local[1] ELSE global, key_path, value)
    IN [global |-> global, local |-> Some(r.global), result |-> r.result]

\* ShadowSettings::set_value_local
set_value_local(global, local, key_path, value) ==
    IF local # None
    THEN LET r == set_value(local[1], key_path, value)
         IN [global |-> global, local |-> Some(r.global), result |-> r.result]
    ELSE LET r == set_value(HashNew, key_path, value)
         IN [global |-> global, local |-> Some(r.global), result |-> r.result]

\* ShadowSettings::set_value_global
set_value_global(global, local, key_path, value) ==
    LET r == set_value(global, key_path, value)
    IN [global |-> r.global, local |-> local, result |-> r.result]

\* delete_key_local, a local tier left empty being dropped
delete_key_local_dropping(global, local, key_path) ==
    IF local # None
    THEN LET r == delete_key(local[1], key_path)
         IN [global |-> global,
             local |-> IF r.global = HashNew THEN None ELSE Some(r.global),
             returned |-> r.returned]
    ELSE [global |-> global, local |-> None, returned |-> None]

\* ShadowSettings::delete_key_local
delete_key_local(global, local, key_path) ==
    IF local # None
    THEN LET r == delete_key(local[1], key_path)
         IN [global |-> global, local |-> Some(r.global), returned |-> r.returned]
    ELSE [global |-> global, local |-> None, returned |-> None]

\* delete_key_global, the key being deleted from the local tier as well
delete_key_both(global, local, key_path) ==
    LET r == delete_key(global, key_path)
    IN [global |-> r.global,
        local |-> IF local # None
                  THEN Some(delete_key(local[1], key_path).global)
                  ELSE None,
        returned |-> r.returned]

\* ShadowSettings::delete_key_global
delete_key_global(global, local, key_path) ==
    LET r == delete_key(global, key_path)
    IN [global |-> r.global, local |-> local, returned |-> r.returned]

\* ShadowSettings::load_global_from, buffer being the content of the file
load_global_from(global, local, buffer) ==
    LET created == create_from(buffer)
    IN IF created.result = "Err"
       THEN [result |-> "Err", global |-> global, local |-> local]
       ELSE [result |-> "Ok", global |-> created.global, local |-> local]

\* ShadowSettings::load_local_from, buffer being the content of the file
load_local_from(global, local, buffer) ==
    LET created == create_from(buffer)
    IN IF created.result = "Err"
       THEN [result |-> "Err", global |-> global, local |-> local]
       ELSE [result |-> "Ok", global |-> global, local |-> Some(created.global)]

\* ShadowSettings::load, the files at the global and at the local path
\* being None when File::open fails and Some(content) otherwise
load(global, local, global_file, local_file) ==
    LET first == IF global_file # None
                 THEN load_global_from(global, local, global_file[1])
                 ELSE [result |-> "Ok", global |-> global, local |-> local]
    IN IF first.result = "Err" THEN first
       ELSE IF local_file # None
            THEN load_local_from(first.global, first.local, local_file[1])
            ELSE [result |-> "Ok", global |-> first.global, local |-> first.local]

\* the step of ShadowSettings::save that returns an error, if any
SaveFailures == { "none", "create_dir_all", "create_global", "write_global",
                  "create_local", "write_local" }

\* save, the local file being written whether there is a local tier or not
save_local_always(config, global, local, global_file, local_file, failing) ==
    IF failing \in {"create_dir_all", "create_global"}
    THEN [result |-> "Err", global_file |-> global_file, local_file |-> local_file]
    ELSE [result |-> "Ok",
          global_file |-> Some(to_string(config, global)),
          local_file |-> Some(to_string(config, IF local # None THEN local[1]
                                                ELSE HashNew))]

\* ShadowSettings::save, global_file and local_file being what is found at
\* the two paths before the call; File::create leaves an empty file
save(config, global, local, global_file, local_file, failing) ==
    IF failing \in {"create_dir_all", "create_global"}
    THEN [result |-> "Err", global_file |-> global_file, local_file |-> local_file]
    ELSE LET first == save_to(config, global, Buffer(0, None), failing # "write_global")
         IN IF first.result = "Err"
            THEN [result |-> "Err", global_file |-> Some(first.file),
                  local_file |-> local_file]
            ELSE IF local # None
            THEN IF failing = "create_local"
                 THEN [result |-> "Err", global_file |-> Some(first.file),
                       local_file |-> local_file]
                 ELSE LET second == save_to(config, local[1], Buffer(0, None),
                                            failing # "write_local")
                      IN [result |-> second.result,
                          global_file |-> Some(first.file),
                          local_file |-> Some(second.file)]
            ELSE [result |-> "Ok", global_file |-> Some(first.file),
                  local_file |-> local_file]

(***************************************************************************)
(* The state: one Settings (global), a second one used as the right        *)
(* operand of `+` and `+=` (other), and a record of the last call.  For a  *)
(* ShadowSettings, global is its global tier and local its local tier.     *)
(***************************************************************************)
VARIABLES
    global,     \* self.global of the Settings under test
    other,      \* the global map of the right operand of + and +=
    before,     \* self.global as it was when the last call started
    last,       \* the last call: its name, arguments and what it returned
    nOps,       \* the number of set_value / delete_key calls made so far
    local,      \* ShadowSettings.local : Option<Settings>, its global map
    before_local,   \* ShadowSettings.local as it was when the last call started
    ioconfig,       \* the Format the Settings was made with
    global_file,    \* the file at the global path: None, or Some(its content)
    local_file      \* the file at the local path: None, or Some(its content)

\* what only a ShadowSettings has
shadow == <<local, before_local>>

\* the configuration and the files
files == <<ioconfig, global_file, local_file>>

vars == <<global, other, before, last, nOps, local, before_local,
          ioconfig, global_file, local_file>>

Call(op, key_path, value, result, returned) ==
    [op |-> op, key_path |-> key_path, value |-> value,
     result |-> result, returned |-> returned]

\* Settings::new
Init ==
    /\ global = HashNew
    /\ other = HashNew
    /\ before = HashNew
    /\ last = Call("new", <<>>, None, "Ok", None)
    /\ nOps = 0
    /\ local = None
    /\ before_local = None
    /\ ioconfig = RonFormat
    /\ global_file = None
    /\ local_file = None

(***************************************************************************)
(* One Settings: set_value and delete_key, the call being recorded.        *)
(***************************************************************************)
SetValue(key_path, value) ==
    /\ nOps < MaxOps
    /\ LET r == set_value(global, key_path, value)
       IN /\ global' = r.global
          /\ last' = Call("set_value", key_path, <<value>>, r.result, None)
    /\ before' = global
    /\ nOps' = nOps + 1
    /\ UNCHANGED other
    /\ UNCHANGED shadow
    /\ UNCHANGED files

DeleteKey(key_path) ==
    /\ nOps < MaxOps
    /\ LET r == delete_key(global, key_path)
       IN /\ global' = r.global
          /\ last' = Call("delete_key", key_path, None, "Ok", r.returned)
    /\ before' = global
    /\ nOps' = nOps + 1
    /\ UNCHANGED other
    /\ UNCHANGED shadow
    /\ UNCHANGED files

Next ==
    \/ \E key_path \in KeyPaths, value \in Values : SetValue(key_path, value)
    \/ \E key_path \in KeyPaths : DeleteKey(key_path)

Spec == Init /\ [][Next]_vars

(***************************************************************************)
(* The Settings that flatten, from_flat, + and += are applied to are built *)
(* by set_value and delete_key, before any of these is applied; only the   *)
(* fact that an operand was built is recorded.                             *)
(***************************************************************************)
Operands == {"self", "other"}

\* self.set_value(key_path, value) or other.set_value(key_path, value)
OperandSetValue(operand, key_path, value, bound) ==
    /\ nOps < bound
    /\ last.op \in {"new", "build"}
    /\ IF operand = "self"
       THEN /\ global' = set_value(global, key_path, value).global
            /\ UNCHANGED other
       ELSE /\ other' = set_value(other, key_path, value).global
            /\ UNCHANGED global
    /\ last' = Call("build", <<>>, None, "Ok", None)
    /\ nOps' = nOps + 1
    /\ UNCHANGED before
    /\ UNCHANGED shadow
    /\ UNCHANGED files

\* self.delete_key(key_path) or other.delete_key(key_path)
OperandDeleteKey(operand, key_path, bound) ==
    /\ nOps < bound
    /\ last.op \in {"new", "build"}
    /\ IF operand = "self"
       THEN /\ global' = delete_key(global, key_path).global
            /\ UNCHANGED other
       ELSE /\ other' = delete_key(other, key_path).global
            /\ UNCHANGED global
    /\ last' = Call("build", <<>>, None, "Ok", None)
    /\ nOps' = nOps + 1
    /\ UNCHANGED before
    /\ UNCHANGED shadow
    /\ UNCHANGED files

(***************************************************************************)
(* flatten and from_flat on one Settings.                                  *)
(***************************************************************************)
\* Settings::get_flat_hash on the Settings under test
Flatten ==
    /\ last.op = "build"
    /\ last' = Call("flatten", <<>>, None, "Ok", flatten(global))
    /\ UNCHANGED <<global, other, before, nOps>>
    /\ UNCHANGED shadow
    /\ UNCHANGED files

\* Settings::from_flat on the flat Settings that Flatten returned, its
\* entries being iterated in any order
FromFlat ==
    /\ last.op = "flatten"
    /\ \E order \in Orders(DOMAIN last.returned) :
          last' = Call("from_flat", <<>>, None, "Ok",
                       from_flat(last.returned, order))
    /\ UNCHANGED <<global, other, before, nOps>>
    /\ UNCHANGED shadow
    /\ UNCHANGED files

NextFlat ==
    \/ \E key_path \in KeyPaths, value \in FlatValues :
          OperandSetValue("self", key_path, value, MaxOps)
    \/ \E key_path \in KeyPaths :
          OperandDeleteKey("self", key_path, MaxOps)
    \/ Flatten
    \/ FromFlat

SpecFlat == Init /\ [][NextFlat]_vars

(***************************************************************************)
(* Two Settings and the operators + and +=.                                *)
(***************************************************************************)
\* self.clone() + other.clone(), from_flat iterating in any order
Add ==
    /\ last.op = "build"
    /\ \E order \in Orders(DOMAIN HashInsertAll(flatten(global), flatten(other))) :
          last' = Call("add", <<>>, None, "Ok", add(global, other, order))
    /\ UNCHANGED <<global, other, before, nOps>>
    /\ UNCHANGED shadow
    /\ UNCHANGED files

\* self += other.clone(), flat_other being iterated in any order
AddAssign ==
    /\ last.op = "build"
    /\ \E order \in Orders(DOMAIN flatten(other)) :
          global' = add_assign(global, other, order)
    /\ last' = Call("add_assign", <<>>, None, "Ok", None)
    /\ before' = global
    /\ UNCHANGED <<other, nOps>>
    /\ UNCHANGED shadow
    /\ UNCHANGED files

NextMerge ==
    \/ \E operand \in Operands, key_path \in MergeKeyPaths, value \in Values :
          OperandSetValue(operand, key_path, value, MaxMergeOps)
    \/ \E operand \in Operands, key_path \in MergeKeyPaths :
          OperandDeleteKey(operand, key_path, MaxMergeOps)
    \/ Add
    \/ AddAssign

SpecMerge == Init /\ [][NextMerge]_vars

(***************************************************************************)
(* Relations between key paths, by segments.                               *)
(***************************************************************************)
\* p is a segment-prefix of q (p = q included)
IsPrefix(p, q) ==
    LET sp == split(p)
        sq == split(q)
    IN Len(sp) <= Len(sq) /\ SubSeq(sq, 1, Len(sp)) = sp

\* neither is a segment-prefix of the other
Unrelated(p, q) == ~IsPrefix(p, q) /\ ~IsPrefix(q, p)

\* for each key path the operations are called with, the key paths that
\* are extensions of it, and those that are neither prefixes nor extensions
ExtensionsOf == [p \in KeyPaths |-> { q \in KeyPaths : IsPrefix(p, q) }]
UnrelatedTo == [p \in KeyPaths |-> { q \in KeyPaths : Unrelated(p, q) }]

\* for each key path of a merge, the key paths that are strict prefixes or
\* strict extensions of it
Overlaps(q, k) == q # k /\ (IsPrefix(q, k) \/ IsPrefix(k, q))
OverlapsOf == [k \in MergeKeyPaths |-> { q \in MergeKeyPaths : Overlaps(q, k) }]

(***************************************************************************)
(* Properties of set_value and delete_key.                                 *)
(***************************************************************************)
\* C1: after set_value(p, v) returns, get_value(p) returns Some(v), from
\* every tree reachable by set_value and delete_key.
C1_SetThenGet ==
    last.op = "set_value" =>
        /\ last.result = "Ok"
        /\ get_value(global, last.key_path) = Some(wrap(last.value[1]))

\* a three-segment set_value over a tree that held another value there
C1_Witness ==
    /\ last.op = "set_value"
    /\ Len(split(last.key_path)) = 3
    /\ get_value(before, last.key_path) # None
    /\ get_value(before, last.key_path) # Some(wrap(last.value[1]))

\* C2: set_value(p, v) leaves get_value(q) as it was for every q such that
\* neither of p and q is a segment-prefix of the other.
C2_SetKeepsSiblings ==
    last.op = "set_value" =>
        \A q \in UnrelatedTo[last.key_path] :
            get_value(global, q) = get_value(before, q)

\* a set_value below a node that holds a sibling value
C2_Witness ==
    /\ last.op = "set_value"
    /\ \E q \in UnrelatedTo[last.key_path] :
          /\ split(q)[1] = split(last.key_path)[1]
          /\ get_value(before, q) # None
          /\ get_value(global, q) = get_value(before, q)

\* C3: delete_key(p) returns what get_value(p) returned just before, and
\* afterwards get_value(p) and get_value of every extension of p are None.
C3_DeleteReturnsAndRemoves ==
    last.op = "delete_key" =>
        /\ last.returned = get_value(before, last.key_path)
        /\ \A q \in ExtensionsOf[last.key_path] : get_value(global, q) = None

\* the deletion of an intermediate node that holds a subtree
C3_Witness ==
    /\ last.op = "delete_key"
    /\ Len(split(last.key_path)) >= 2
    /\ last.returned # None
    /\ is_complex(last.returned[1])
    /\ DOMAIN last.returned[1].hash # {}

\* C4: delete_key(p) leaves get_value(q) as it was for every q such that
\* neither of p and q is a segment-prefix of the other, at every depth.
C4_DeleteKeepsSiblings ==
    last.op = "delete_key" =>
        \A q \in UnrelatedTo[last.key_path] :
            get_value(global, q) = get_value(before, q)

\* C5: when get_value(p) is None, delete_key(p) returns None and leaves the
\* tree as it was: no key created, no value removed or replaced (and so
\* the same keys()).
C5_DeleteMissingIsNoOp ==
    (last.op = "delete_key" /\ get_value(before, last.key_path) = None) =>
        /\ last.returned = None
        /\ global = before

\* the tree holds a non-Complex value at k
HoldsLeafAt(tree, k) ==
    LET found == get_value(tree, k)
    IN found # None /\ ~is_complex(found[1])

\* for each key path, its strict segment-prefixes
StrictPrefixesOf == [p \in KeyPaths |-> { r \in KeyPaths : r # p /\ IsPrefix(r, p) }]

\* the value v below the keys segs, each in a Complex of its own
RECURSIVE chain(_, _)
chain(segs, v) ==
    IF segs = <<>> THEN v
    ELSE TypeComplex(HashInsert(HashNew, segs[1], chain(Tail(segs), v)))

\* C27: when a strict prefix r of p holds a value that is not a Complex,
\* set_value(p, v) returns Ok, and afterwards get_value(r) is the chain of
\* single-entry Complex values that leads to v at p (the old value at r is
\* gone), while get_value(q) is as before for every q that is neither a
\* prefix nor an extension of p.
C27_SetThroughLeaf ==
    last.op = "set_value" =>
        \A r \in StrictPrefixesOf[last.key_path] :
            HoldsLeafAt(before, r) =>
                /\ last.result = "Ok"
                /\ get_value(global, r) =
                      Some(chain(SubSeq(split(last.key_path),
                                        Len(split(r)) + 1,
                                        Len(split(last.key_path))),
                                 wrap(last.value[1])))
                /\ \A q \in UnrelatedTo[last.key_path] :
                      get_value(global, q) = get_value(before, q)

\* a three-segment set_value over a value held at its first segment
C27_Witness ==
    /\ last.op = "set_value"
    /\ Len(split(last.key_path)) = 3
    /\ \E r \in StrictPrefixesOf[last.key_path] :
          /\ Len(split(r)) = 1
          /\ HoldsLeafAt(before, r)
          /\ get_value(global, r) # get_value(before, r)

(***************************************************************************)
(* Properties of flatten, from_flat, + and +=.                             *)
(***************************************************************************)
\* the map holds a non-Complex value at some depth
RECURSIVE holds_leaf(_)
holds_leaf(hash) ==
    \E k \in DOMAIN hash :
        IF is_complex(hash[k]) THEN holds_leaf(hash[k].hash) ELSE TRUE

\* no Complex of the map, at any depth, is empty
RECURSIVE no_empty_complex(_)
no_empty_complex(hash) ==
    \A k \in DOMAIN hash :
        is_complex(hash[k]) =>
            DOMAIN hash[k].hash # {} /\ no_empty_complex(hash[k].hash)

\* C6 as claimed: (t1 + t2).get_value(k) = t2.get_value(k) for every k at
\* which t2 holds a non-Complex value, whatever t1 holds around k and
\* whatever the iteration order.
C6_MergeRightBiasedAlways ==
    last.op = "add" =>
        \A k \in MergeKeyPaths :
            HoldsLeafAt(other, k) =>
                get_value(last.returned, k) = get_value(other, k)

\* C6 amended: the same, for every k such that t1 holds no non-Complex
\* value at a strict prefix or at a strict extension of k.
C6_MergeRightBiased ==
    last.op = "add" =>
        \A k \in MergeKeyPaths :
            ( /\ HoldsLeafAt(other, k)
              /\ \A q \in OverlapsOf[k] : ~HoldsLeafAt(global, q) )
            => get_value(last.returned, k) = get_value(other, k)

\* a merge in which the right side overrides a different value of the left
C6_Witness ==
    /\ last.op = "add"
    /\ \E k \in MergeKeyPaths :
          /\ HoldsLeafAt(other, k)
          /\ HoldsLeafAt(global, k)
          /\ get_value(global, k) # get_value(other, k)
          /\ get_value(last.returned, k) = get_value(other, k)

\* C7: (t1 + t2).get_value(k) = t1.get_value(k) for every k at which t1
\* holds a non-Complex value and t2 holds nothing at k, at a strict prefix
\* of k or at an extension of k.
C7_MergeKeepsLeft ==
    last.op = "add" =>
        \A k \in MergeKeyPaths :
            ( /\ HoldsLeafAt(global, k)
              /\ get_value(other, k) = None
              /\ \A q \in OverlapsOf[k] : get_value(other, q) = None )
            => get_value(last.returned, k) = get_value(global, k)

\* a merge with a non-empty right side that keeps a nested value of the left
C7_Witness ==
    /\ last.op = "add"
    /\ other # HashNew
    /\ \E k \in MergeKeyPaths :
          /\ Len(split(k)) >= 2
          /\ HoldsLeafAt(global, k)
          /\ get_value(other, k) = None
          /\ \A q \in OverlapsOf[k] : get_value(other, q) = None
          /\ get_value(last.returned, k) = get_value(global, k)

\* C8: the tree left in a by a += b is the tree a + b returns, for all
\* trees a and b.
C8_AddAssignIsAdd ==
    last.op = "add_assign" =>
        \A order \in Orders(DOMAIN HashInsertAll(flatten(before), flatten(other))) :
            global = add(before, other, order)

\* C9 as claimed: is_flat(flatten(t)) for every tree t with at least one
\* top-level entry.
C9_FlattenIsFlatNonEmpty ==
    (last.op = "flatten" /\ Cardinality(DOMAIN global) > 0) =>
        is_flat(last.returned)

\* C9 amended: is_flat(flatten(t)) for every tree t that holds at least one
\* non-Complex value, at any depth.
C9_FlattenIsFlat ==
    (last.op = "flatten" /\ holds_leaf(global)) => is_flat(last.returned)

\* the flattening of a nested tree
C9_Witness ==
    /\ last.op = "flatten"
    /\ holds_leaf(global)
    /\ ~is_flat(global)
    /\ is_flat(last.returned)

\* C10: from_flat(flatten(t)) = t for every tree t with no empty Complex,
\* in whatever order from_flat iterates the flat entries.
C10_FlattenFromFlat ==
    (last.op = "from_flat" /\ no_empty_complex(global)) =>
        last.returned = global

\* a nested tree with several leaves rebuilt from its flat form
C10_Witness ==
    /\ last.op = "from_flat"
    /\ no_empty_complex(global)
    /\ ~is_flat(global)
    /\ Cardinality(DOMAIN flatten(global)) >= 2
    /\ last.returned = global

(***************************************************************************)
(* One Settings that is built and then read: keys, get_value, is_flat.     *)
(***************************************************************************)
KeyA == <<"a">>
KeyB == <<"b">>

\* the key paths, by segments, the Settings that is read is built with
TreeSegments ==
    { <<KeyA>>, <<KeyB>>, <<KeyA, KeyA>>, <<KeyA, KeyB>>,
      <<KeyA, KeyA, KeyA>>, <<KeyA, KeyA, KeyB>> }

\* the key paths, by segments, it is read at: the same and some that lead
\* nowhere or through a value
ReadSegments ==
    TreeSegments \cup
        { <<KeyB, KeyA>>, <<KeyA, KeyB, KeyA>>, <<KeyA, KeyA, KeyA, KeyA>> }

TreePaths == { join(segs) : segs \in TreeSegments }
ReadPaths == { join(segs) : segs \in ReadSegments }

\* self.keys(), flat.global.keys() yielding the keys in any order
ListKeys ==
    /\ last.op \in {"new", "build"}
    /\ \E order \in Orders(DOMAIN flatten(global)) :
          last' = Call("keys", <<>>, None, "Ok", keys(global, order))
    /\ before' = global
    /\ UNCHANGED <<global, other, nOps>>
    /\ UNCHANGED shadow
    /\ UNCHANGED files

\* self.get_value(key_path)
GetValue(key_path) ==
    /\ last.op \in {"new", "build"}
    /\ last' = Call("get_value", key_path, None, "Ok", get_value(global, key_path))
    /\ before' = global
    /\ UNCHANGED <<global, other, nOps>>
    /\ UNCHANGED shadow
    /\ UNCHANGED files

\* self.is_flat()
IsFlat ==
    /\ last.op \in {"new", "build"}
    /\ last' = Call("is_flat", <<>>, None, "Ok", is_flat(global))
    /\ before' = global
    /\ UNCHANGED <<global, other, nOps>>
    /\ UNCHANGED shadow
    /\ UNCHANGED files

NextRead ==
    \/ \E key_path \in TreePaths, value \in FlatValues :
          OperandSetValue("self", key_path, value, MaxReadOps)
    \/ \E key_path \in TreePaths :
          OperandDeleteKey("self", key_path, MaxReadOps)
    \/ ListKeys
    \/ \E key_path \in ReadPaths : GetValue(key_path)
    \/ IsFlat

SpecRead == Init /\ [][NextRead]_vars

(***************************************************************************)
(* Properties of keys, get_value and is_flat.                              *)
(***************************************************************************)
\* the elements of a sequence
Range(seq) == { seq[i] : i \in 1..Len(seq) }

\* the segments a key path was written from
SegmentsOf == [p \in ReadPaths |-> CHOOSE segs \in ReadSegments : join(segs) = p]

\* what following the segments from the map leads to: the value met after
\* the last segment, every value met before being a Complex
RECURSIVE Reached(_, _)
Reached(hash, segs) ==
    IF segs[1] \notin DOMAIN hash THEN None
    ELSE IF Len(segs) = 1 THEN Some(hash[segs[1]])
    ELSE IF is_complex(hash[segs[1]]) THEN Reached(hash[segs[1]].hash, Tail(segs))
    ELSE None

\* C11: keys() returns, without duplicates, exactly the key paths at which
\* get_value returns a non-Complex value: no path of a Complex and no
\* missing leaf, for every tree built by set_value and delete_key.
C11_KeysAreLeaves ==
    last.op = "keys" =>
        /\ Cardinality(Range(last.returned)) = Len(last.returned)
        /\ \A k \in Range(last.returned) : HoldsLeafAt(global, k)
        /\ \A p \in ReadPaths : HoldsLeafAt(global, p) => p \in Range(last.returned)

\* keys() has listed a leaf of depth one and a leaf of depth three, a
\* Complex being held besides
C11_Witness ==
    /\ last.op = "keys"
    /\ Range(last.returned) = { join(<<KeyB>>), join(<<KeyA, KeyA, KeyB>>) }
    /\ get_value(global, join(<<KeyA, KeyA>>)) # None

\* C12: get_value(p) returns Some(v) exactly when following the segments of
\* p from the root, through Complex values only before the last segment,
\* leads to v; it returns None when a segment is missing or a value that is
\* not a Complex is met before the last segment; the tree is left as it was.
C12_GetValueWalks ==
    last.op = "get_value" =>
        /\ last.result = "Ok"
        /\ last.returned = Reached(before, SegmentsOf[last.key_path])
        /\ global = before

\* get_value has met a value that is not a Complex before the last segment
C12_Witness ==
    /\ last.op = "get_value"
    /\ last.key_path = join(<<KeyA, KeyA, KeyB>>)
    /\ last.returned = None
    /\ HoldsLeafAt(global, join(<<KeyA, KeyA>>))

\* C13: is_flat() is true exactly when the tree has at least one entry and
\* none of its top-level values is a Complex; the empty tree is not flat.
C13_IsFlat ==
    last.op = "is_flat" =>
        last.returned = (/\ DOMAIN global # {}
                         /\ \A key \in DOMAIN global : ~is_complex(global[key]))

\* is_flat has answered for the empty tree
C13_Witness ==
    /\ last.op = "is_flat"
    /\ global = HashNew
    /\ last.returned = FALSE

(***************************************************************************)
(* One ShadowSettings: its two tiers, read, written and loaded, each call  *)
(* being recorded with the two tiers as they were when it started.         *)
(***************************************************************************)
\* the tree a file holds
FileTree ==
    LET one == set_value(HashNew, join(<<KeyA, KeyA, KeyA>>), NativeI32(23)).global
        two == set_value(one, join(<<KeyA, KeyB>>), NativeI32(23)).global
    IN set_value(two, join(<<KeyB>>), NativeI32(23)).global

\* the contents of a file: nothing, something from_str refuses, a tree
EmptyBuffer == Buffer(0, None)
BrokenBuffer == Buffer(1, None)
TreeBuffer == Buffer(2, Some(FileTree))
Buffers == { EmptyBuffer, BrokenBuffer, TreeBuffer }

\* a file in which a table holds a key with a dot in it, as a quoted key
\* of the text format: { "a" : { "a.b" : 23, "b" : true } }
DottedTree ==
    HashInsert(HashNew, KeyA,
        TypeComplex(HashInsert(HashInsert(HashNew, join(<<KeyA, KeyB>>),
                                          wrap(NativeI32(23))),
                               KeyB, wrap(NativeBool(TRUE)))))
DottedBuffer == Buffer(3, Some(DottedTree))

\* what is found at a path: no file that can be opened, or a file
Files == { None } \cup { Some(buffer) : buffer \in Buffers }

\* ShadowSettings::new, or ShadowSettings::create_from when it returns Ok
InitShadow ==
    /\ \/ /\ global = HashNew
          /\ last = Call("new", <<>>, None, "Ok", None)
       \/ \E buffer \in Buffers :
             /\ create_from(buffer).result = "Ok"
             /\ global = create_from(buffer).global
             /\ last = Call("create_from", <<>>, Some(buffer), "Ok", None)
    /\ local = None
    /\ other = HashNew
    /\ before = HashNew
    /\ before_local = None
    /\ nOps = 0
    /\ ioconfig = RonFormat
    /\ global_file = None
    /\ local_file = None

\* what every call on the ShadowSettings does besides its own effect
Called ==
    /\ nOps < MaxShadowOps
    /\ nOps' = nOps + 1
    /\ before' = global
    /\ before_local' = local
    /\ UNCHANGED other

\* self.get_value(key_path)
ShadowGetValue(key_path) ==
    /\ Called
    /\ UNCHANGED files
    /\ last' = Call("get_value", key_path, None, "Ok",
                    shadow_get_value(global, local, key_path))
    /\ UNCHANGED <<global, local>>

\* self.get_value_local(key_path)
GetValueLocal(key_path) ==
    /\ Called
    /\ UNCHANGED files
    /\ last' = Call("get_value_local", key_path, None, "Ok",
                    get_value_local(local, key_path))
    /\ UNCHANGED <<global, local>>

\* self.get_value_global(key_path)
GetValueGlobal(key_path) ==
    /\ Called
    /\ UNCHANGED files
    /\ last' = Call("get_value_global", key_path, None, "Ok",
                    get_value_global(global, key_path))
    /\ UNCHANGED <<global, local>>

\* self.set_value_local(key_path, value)
SetValueLocal(key_path, value) ==
    /\ Called
    /\ UNCHANGED files
    /\ LET r == set_value_local(global, local, key_path, value)
       IN /\ local' = r.local
          /\ global' = r.global
          /\ last' = Call("set_value_local", key_path, Some(value), r.result, None)

\* self.set_value_global(key_path, value)
SetValueGlobal(key_path, value) ==
    /\ Called
    /\ UNCHANGED files
    /\ LET r == set_value_global(global, local, key_path, value)
       IN /\ global' = r.global
          /\ local' = r.local
          /\ last' = Call("set_value_global", key_path, Some(value), r.result, None)

\* self.delete_key_local(key_path)
DeleteKeyLocal(key_path) ==
    /\ Called
    /\ UNCHANGED files
    /\ LET r == delete_key_local(global, local, key_path)
       IN /\ global' = r.global
          /\ local' = r.local
          /\ last' = Call("delete_key_local", key_path, None, "Ok", r.returned)

\* self.delete_key_global(key_path)
DeleteKeyGlobal(key_path) ==
    /\ Called
    /\ UNCHANGED files
    /\ LET r == delete_key_global(global, local, key_path)
       IN /\ global' = r.global
          /\ local' = r.local
          /\ last' = Call("delete_key_global", key_path, None, "Ok", r.returned)

\* self.load_global_from(file), the file holding buffer
LoadGlobalFrom(buffer) ==
    /\ Called
    /\ UNCHANGED files
    /\ LET r == load_global_from(global, local, buffer)
       IN /\ global' = r.global
          /\ local' = r.local
          /\ last' = Call("load_global_from", <<>>, Some(buffer), r.result, None)

\* self.load_local_from(file), the file holding buffer
LoadLocalFrom(buffer) ==
    /\ Called
    /\ UNCHANGED files
    /\ LET r == load_local_from(global, local, buffer)
       IN /\ global' = r.global
          /\ local' = r.local
          /\ last' = Call("load_local_from", <<>>, Some(buffer), r.result, None)

\* self.load(), global_opened and local_opened being what is found at the
\* global and at the local path
Load(global_opened, local_opened) ==
    /\ Called
    /\ UNCHANGED files
    /\ LET r == load(global, local, global_opened, local_opened)
       IN /\ global' = r.global
          /\ local' = r.local
          /\ last' = Call("load", <<>>, <<global_opened, local_opened>>, r.result, None)

NextShadow ==
    \/ \E key_path \in ReadPaths : ShadowGetValue(key_path)
    \/ \E key_path \in TreePaths : GetValueLocal(key_path)
    \/ \E key_path \in TreePaths : GetValueGlobal(key_path)
    \/ \E key_path \in TreePaths, value \in Values : SetValueLocal(key_path, value)
    \/ \E key_path \in TreePaths, value \in Values : SetValueGlobal(key_path, value)
    \/ \E key_path \in TreePaths : DeleteKeyLocal(key_path)
    \/ \E key_path \in TreePaths : DeleteKeyGlobal(key_path)
    \/ \E buffer \in Buffers : LoadGlobalFrom(buffer)
    \/ \E buffer \in Buffers : LoadLocalFrom(buffer)
    \/ \E global_opened \in Files, local_opened \in Files : Load(global_opened, local_opened)

SpecShadow == InitShadow /\ [][NextShadow]_vars

(***************************************************************************)
(* Properties of ShadowSettings.                                           *)
(***************************************************************************)
\* for each key path written, the key paths read that are neither its
\* prefixes nor its extensions
UnrelatedReads == [p \in TreePaths |-> { q \in ReadPaths : Unrelated(p, q) }]

\* C14: get_value(p) of a ShadowSettings returns the value of the local
\* tier when the local tier is present and holds a non-Complex value at p,
\* whatever the global tier holds; it returns exactly global.get_value(p)
\* when the local tier is absent or local.get_value(p) is None.
C14_LocalPrecedence ==
    last.op = "get_value" =>
        LET p == last.key_path
        IN /\ (local # None /\ HoldsLeafAt(local[1], p)) =>
                  last.returned = get_value(local[1], p)
           /\ (local = None \/ get_value(local[1], p) = None) =>
                  last.returned = get_value(global, p)

\* get_value has returned the local value of a path at which the global
\* tier holds another value
C14_Witness ==
    /\ last.op = "get_value"
    /\ local # None
    /\ HoldsLeafAt(local[1], last.key_path)
    /\ get_value(global, last.key_path) # None
    /\ get_value(global, last.key_path) # get_value(local[1], last.key_path)
    /\ last.returned = get_value(local[1], last.key_path)

\* C15: when the local and the global tier both hold a Complex at p,
\* get_value(p) returns a Complex whose keys are the union of the keys of
\* the two; every key of the local Complex maps to the local value, left as
\* it is even when both values are Complex, and every key found only in the
\* global Complex maps to the global value.
C15_CompositeRead ==
    (/\ last.op = "get_value"
     /\ local # None
     /\ get_value(local[1], last.key_path) # None
     /\ is_complex(get_value(local[1], last.key_path)[1])
     /\ get_value(global, last.key_path) # None
     /\ is_complex(get_value(global, last.key_path)[1])) =>
        LET in_local == get_value(local[1], last.key_path)[1].hash
            in_global == get_value(global, last.key_path)[1].hash
        IN /\ last.returned # None
           /\ is_complex(last.returned[1])
           /\ DOMAIN last.returned[1].hash = (DOMAIN in_local) \cup (DOMAIN in_global)
           /\ \A k \in DOMAIN in_local : last.returned[1].hash[k] = in_local[k]
           /\ \A k \in (DOMAIN in_global) \ (DOMAIN in_local) :
                 last.returned[1].hash[k] = in_global[k]

\* get_value has composed two Complex that share a key, under which both
\* hold a Complex, the global one having a key of its own
C15_Witness ==
    /\ last.op = "get_value"
    /\ local # None
    /\ get_value(local[1], last.key_path) # None
    /\ is_complex(get_value(local[1], last.key_path)[1])
    /\ get_value(global, last.key_path) # None
    /\ is_complex(get_value(global, last.key_path)[1])
    /\ LET in_local == get_value(local[1], last.key_path)[1].hash
           in_global == get_value(global, last.key_path)[1].hash
       IN /\ \E k \in (DOMAIN in_local) \cap (DOMAIN in_global) :
                /\ is_complex(in_local[k])
                /\ is_complex(in_global[k])
                /\ in_local[k] # in_global[k]
          /\ (DOMAIN in_global) \ (DOMAIN in_local) # {}

\* C16: set_value_global and delete_key_global leave the local tier as it
\* was; set_value_local and delete_key_local leave every get_value_global
\* as it was; a non-Complex value of the local tier at p is still what
\* get_value(p) returns after delete_key_global(p).
C16_TierIsolation ==
    /\ last.op \in {"set_value_global", "delete_key_global"} =>
          /\ local = before_local
          /\ \A q \in ReadPaths :
                get_value_local(local, q) = get_value_local(before_local, q)
    /\ last.op \in {"set_value_local", "delete_key_local"} =>
          \A q \in ReadPaths :
              get_value_global(global, q) = get_value_global(before, q)
    /\ (/\ last.op = "delete_key_global"
        /\ before_local # None
        /\ HoldsLeafAt(before_local[1], last.key_path)) =>
          shadow_get_value(global, local, last.key_path)
              = get_value(before_local[1], last.key_path)

\* delete_key_global has removed a value of the global tier from a path at
\* which the local tier holds a non-Complex value
C16_Witness ==
    /\ last.op = "delete_key_global"
    /\ last.returned # None
    /\ local # None
    /\ HoldsLeafAt(local[1], last.key_path)

\* C17: the local tier is absent after new and create_from; it becomes
\* present only by set_value_local or by a local load that returns Ok;
\* get_value, get_value_local, set_value_global, delete_key_global,
\* delete_key_local (which returns None on an absent tier) and a local load
\* that fails never make it present; once present it never becomes absent.
C17_LocalLifecycle ==
    /\ local = None
    /\ [][/\ local # None => local' # None
          /\ (local = None /\ local' # None) =>
                \/ last'.op = "set_value_local"
                \/ last'.op = "load_local_from" /\ last'.result = "Ok"
                \/ /\ last'.op = "load"
                   /\ last'.result = "Ok"
                   /\ last'.value[2] # None
          /\ (/\ local = None
              /\ last'.op \in {"get_value", "get_value_local", "set_value_global",
                               "delete_key_global", "delete_key_local"}) =>
                local' = None
          /\ (local = None /\ last'.op = "delete_key_local") =>
                last'.returned = None
          /\ (/\ local = None
              /\ last'.op \in {"load_local_from", "load"}
              /\ last'.result = "Err") =>
                local' = None]_vars

\* the local tier is present and empty, its only entry having been deleted
C17_Witness ==
    /\ last.op = "delete_key_local"
    /\ last.returned # None
    /\ local = Some(HashNew)

\* C18: set_value_local(p, v) on a ShadowSettings without local tier
\* returns Ok and makes a local tier that holds the entry for p and nothing
\* at the paths unrelated to p, whatever the global tier holds.
C18_SetValueLocalCreates ==
    (last.op = "set_value_local" /\ before_local = None) =>
        /\ last.result = "Ok"
        /\ local # None
        /\ get_value_local(local, last.key_path) = Some(wrap(last.value[1]))
        /\ \A q \in UnrelatedReads[last.key_path] : get_value_local(local, q) = None

\* set_value_local has made the local tier of a ShadowSettings whose global
\* tier holds values at paths unrelated to p
C18_Witness ==
    /\ last.op = "set_value_local"
    /\ before_local = None
    /\ \E q \in UnrelatedReads[last.key_path] : get_value_global(global, q) # None

\* the content of the file can be decoded
Decodable(file) == file # None /\ file[1].decoded # None

\* C19 as claimed, for files that are not empty: load() loads each tier
\* whose file can be decoded, whatever the other file is; a tier whose file
\* is absent or cannot be decoded is left as it was, and a local file that
\* is absent or cannot be decoded is not reported as an error.
C19_LoadTiersIndependently ==
    (/\ last.op = "load"
     /\ last.value[1] # Some(EmptyBuffer)
     /\ last.value[2] # Some(EmptyBuffer)) =>
        LET global_opened == last.value[1]
            local_opened == last.value[2]
        IN /\ Decodable(local_opened) => local = Some(local_opened[1].decoded[1])
           /\ Decodable(global_opened) => global = global_opened[1].decoded[1]
           /\ ~Decodable(global_opened) => global = before
           /\ ~Decodable(local_opened) => local = before_local
           /\ (~Decodable(local_opened) /\ (global_opened = None \/ Decodable(global_opened))) =>
                 last.result = "Ok"

\* C20 as claimed: a load from an empty buffer is an error and never gives
\* an empty tree, for Settings::load_from and Settings::create_from, and so
\* load_global_from and load_local_from never replace a tier by an empty
\* tree because the file was empty.
C20_EmptyBufferIsError ==
    /\ load_from(global, EmptyBuffer).result = "Err"
    /\ load_from(global, EmptyBuffer).global = global
    /\ last.op = "create_from" => last.value[1].len > 0
    /\ (last.op = "load_global_from" /\ last.value[1].len = 0) =>
          last.result = "Err" /\ global = before
    /\ (last.op = "load_local_from" /\ last.value[1].len = 0) =>
          last.result = "Err" /\ local = before_local

(***************************************************************************)
(* One Settings that is built, saved to the file at its path and loaded.   *)
(***************************************************************************)
\* what the file given to load_from or create_from may hold
FileContents == Buffers \cup { Unreadable }

\* Settings::new with one of the formats
InitFile ==
    /\ global = HashNew
    /\ other = HashNew
    /\ before = HashNew
    /\ last = Call("new", <<>>, None, "Ok", None)
    /\ nOps = 0
    /\ local = None
    /\ before_local = None
    /\ ioconfig \in Formats
    /\ global_file = None
    /\ local_file = None

\* self.save_to(file), the file being the one at the path of the
\* configuration, just created; written is whether file.write returns Ok
SaveTo(written) ==
    /\ last.op \in {"new", "build"}
    /\ LET r == save_to(ioconfig, global, EmptyBuffer, written)
       IN /\ global_file' = Some(r.file)
          /\ last' = Call("save_to", <<>>, None, r.result, None)
    /\ UNCHANGED <<global, other, before, nOps, ioconfig, local_file>>
    /\ UNCHANGED shadow

\* self.load_from(file), the file holding buffer
LoadFrom(buffer) ==
    /\ last.op \in {"new", "build", "save_to"}
    /\ LET r == load_from(global, buffer)
       IN /\ global' = r.global
          /\ last' = Call("load_from", <<>>, Some(buffer), r.result, None)
    /\ before' = global
    /\ UNCHANGED <<other, nOps>>
    /\ UNCHANGED shadow
    /\ UNCHANGED files

\* self.load(), which opens the file at the path of the configuration
LoadPath ==
    /\ last.op \in {"new", "build", "save_to"}
    /\ LET r == settings_load(global, global_file)
       IN /\ global' = r.global
          /\ last' = Call("load", <<>>, global_file, r.result, None)
    /\ before' = global
    /\ UNCHANGED <<other, nOps>>
    /\ UNCHANGED shadow
    /\ UNCHANGED files

\* Settings::create_from(file, config), the file holding buffer; the
\* Settings it returns is recorded, the one that was saved is kept
CreateFrom(buffer) ==
    /\ last.op \in {"new", "build", "save_to"}
    /\ LET r == create_from(buffer)
       IN last' = Call("create_from", <<>>, Some(buffer), r.result,
                       IF r.result = "Ok" THEN Some(r.global) ELSE None)
    /\ before' = global
    /\ UNCHANGED <<global, other, nOps>>
    /\ UNCHANGED shadow
    /\ UNCHANGED files

\* self.load_from(file), the file being the one save_to has written to
LoadFromSaved ==
    /\ last.op = "save_to"
    /\ LoadFrom(global_file[1])

\* Settings::create_from(file, config), the file being the one save_to
\* has written to
CreateFromSaved ==
    /\ last.op = "save_to"
    /\ CreateFrom(global_file[1])

NextFile ==
    \/ \E key_path \in TreePaths, value \in Values :
          OperandSetValue("self", key_path, value, MaxFileOps)
    \/ \E key_path \in TreePaths :
          OperandDeleteKey("self", key_path, MaxFileOps)
    \/ \E written \in BOOLEAN : SaveTo(written)
    \/ \E buffer \in FileContents : LoadFrom(buffer)
    \/ LoadFromSaved
    \/ LoadPath
    \/ \E buffer \in FileContents : CreateFrom(buffer)
    \/ CreateFromSaved

SpecFile == InitFile /\ [][NextFile]_vars

(***************************************************************************)
(* Properties of load_from, save_to and create_from.                       *)
(***************************************************************************)
\* C21: load_from (and load, which opens the file and calls it) is all or
\* nothing: either it returns Ok and the tree is exactly the decoded map,
\* nothing of what it held before being kept, or it returns an error, as
\* it does for a file that cannot be opened or read, an empty content and
\* a content that cannot be decoded, and the tree is what it was.
C21_LoadFromAllOrNothing ==
    last.op \in {"load_from", "load"} =>
        LET file == last.value
            failing == \/ file = None
                       \/ file[1].read = "Err"
                       \/ file[1].len = 0
                       \/ file[1].decoded = None
        IN /\ last.result \in {"Ok", "Err"}
           /\ failing => last.result = "Err"
           /\ last.result = "Err" => global = before
           /\ last.result = "Ok" => ~failing /\ global = file[1].decoded[1]

\* load_from has returned Ok on a Settings that held a value at a path at
\* which the decoded map holds nothing
C21_Witness ==
    /\ last.op = "load_from"
    /\ last.result = "Ok"
    /\ \E p \in TreePaths : get_value(before, p) # None /\ get_value(global, p) = None
    /\ global # HashNew

\* what the last call has read is what save_to has written from the tree
ReadBack ==
    /\ last.op \in {"load_from", "load", "create_from"}
    /\ global_file # None
    /\ last.value = global_file
    /\ global_file[1] = to_string(ioconfig, before)

\* the tree that the last call has loaded, when it returned Ok
Loaded == IF last.op = "create_from" THEN last.returned[1] ELSE global

\* C23 as claimed: for a format whose from_str inverts its to_string and
\* every tree built by set_value, the empty tree included, reading back
\* with create_from or load_from what save_to has written returns Ok and
\* gives a tree on which get_value agrees with the saved tree at every path.
C23_RoundTripAlways ==
    ReadBack =>
        /\ last.result = "Ok"
        /\ \A p \in ReadPaths : get_value(Loaded, p) = get_value(before, p)

\* C23 amended: the same for create_from, and for load_from and load when
\* the text written is not empty; when it is empty, load_from and load
\* return an error and leave the tree as it was.
C23_RoundTrip ==
    ReadBack =>
        IF last.op = "create_from" \/ global_file[1].len > 0
        THEN /\ last.result = "Ok"
             /\ \A p \in ReadPaths : get_value(Loaded, p) = get_value(before, p)
        ELSE last.result = "Err" /\ global = before

\* create_from has read back a tree that holds a value three segments deep
C23_Witness ==
    /\ ReadBack
    /\ last.op = "create_from"
    /\ last.result = "Ok"
    /\ get_value(last.returned[1], join(<<KeyA, KeyA, KeyB>>)) = Some(TypeInt(23))

(***************************************************************************)
(* One ShadowSettings that is written, saved to its two files and loaded   *)
(* from them.                                                              *)
(***************************************************************************)
\* ShadowSettings::new with one of the formats, a local file being there
\* already or not
InitStore ==
    /\ global = HashNew
    /\ other = HashNew
    /\ before = HashNew
    /\ last = Call("new", <<>>, None, "Ok", None)
    /\ nOps = 0
    /\ local = None
    /\ before_local = None
    /\ ioconfig \in Formats
    /\ global_file = None
    /\ local_file \in { None, Some(TreeBuffer) }

\* self.save(), the files as they were being recorded
Save(failing) ==
    /\ Called
    /\ LET r == save(ioconfig, global, local, global_file, local_file, failing)
       IN /\ global_file' = r.global_file
          /\ local_file' = r.local_file
          /\ last' = Call("save", <<>>, <<global_file, local_file>>, r.result, None)
    /\ UNCHANGED <<global, local, ioconfig>>

\* self.load(), which opens the files at the two paths
LoadSaved == Load(global_file, local_file)

NextStore ==
    \/ \E key_path \in TreePaths, value \in Values : SetValueLocal(key_path, value)
    \/ \E key_path \in TreePaths, value \in Values : SetValueGlobal(key_path, value)
    \/ \E key_path \in TreePaths : DeleteKeyLocal(key_path)
    \/ \E key_path \in TreePaths : DeleteKeyGlobal(key_path)
    \/ \E failing \in SaveFailures : Save(failing)
    \/ LoadSaved

SpecStore == InitStore /\ [][NextStore]_vars

\* C22: a save that returns Ok has written the global tier to the global
\* file; with the local tier absent the local file is neither created nor
\* modified; with the local tier present a save that returns Ok has
\* written the local tier to the local file as well.
C22_SaveWritesTiers ==
    last.op = "save" =>
        /\ global = before /\ local = before_local
        /\ last.result = "Ok" => global_file = Some(to_string(ioconfig, global))
        /\ local = None => local_file = last.value[2]
        /\ (local # None /\ last.result = "Ok") =>
              local_file = Some(to_string(ioconfig, local[1]))

\* save has returned Ok with both tiers holding values, and has written a
\* local file that was not there
C22_Witness ==
    /\ last.op = "save"
    /\ last.result = "Ok"
    /\ local # None
    /\ last.value[2] = None
    /\ local_file = Some(to_string(ioconfig, local[1]))
    /\ local[1] # HashNew

(***************************************************************************)
(* Reads with a default: a Settings, kept in other, and a ShadowSettings,  *)
(* kept in global and local, are built and then asked for values.          *)
(***************************************************************************)
MaxDefaultOps == 2

\* self.set_value_local(key_path, value) or self.set_value_global(key_path,
\* value) on the ShadowSettings, without a record of the call
TierSetValue(tier, key_path, value) ==
    /\ nOps < MaxDefaultOps
    /\ last.op \in {"new", "create_from", "build"}
    /\ LET r == IF tier = "local"
                THEN set_value_local(global, local, key_path, value)
                ELSE set_value_global(global, local, key_path, value)
       IN /\ global' = r.global
          /\ local' = r.local
    /\ last' = Call("build", <<>>, None, "Ok", None)
    /\ nOps' = nOps + 1
    /\ UNCHANGED <<other, before, before_local>>
    /\ UNCHANGED files

\* other.set_value(key_path, value) on the Settings, without a record of
\* the call
SettingsSetValue(key_path, value) ==
    /\ nOps < MaxDefaultOps
    /\ last.op \in {"new", "create_from", "build"}
    /\ other' = set_value(other, key_path, value).global
    /\ last' = Call("build", <<>>, None, "Ok", None)
    /\ nOps' = nOps + 1
    /\ UNCHANGED <<global, before>>
    /\ UNCHANGED shadow
    /\ UNCHANGED files

\* other.get_value_or(key_path, default_value) on the Settings; before
\* records the Settings as it was
GetValueOr(key_path, default_value) ==
    /\ last.op \in {"new", "create_from", "build"}
    /\ last' = Call("get_value_or", key_path, Some(default_value), "Ok",
                    Some(get_value_or(other, key_path, default_value)))
    /\ before' = other
    /\ UNCHANGED <<global, other, nOps>>
    /\ UNCHANGED shadow
    /\ UNCHANGED files

\* self.get_value_or(key_path, default_value) on the ShadowSettings
ShadowGetValueOr(key_path, default_value) ==
    /\ last.op \in {"new", "create_from", "build"}
    /\ last' = Call("shadow_get_value_or", key_path, Some(default_value), "Ok",
                    Some(shadow_get_value_or(global, local, key_path, default_value)))
    /\ before' = global
    /\ before_local' = local
    /\ UNCHANGED <<global, local, other, nOps>>
    /\ UNCHANGED files

NextDefault ==
    \/ \E tier \in {"local", "global"}, key_path \in TreePaths, value \in Values :
          TierSetValue(tier, key_path, value)
    \/ \E key_path \in TreePaths, value \in Values :
          SettingsSetValue(key_path, value)
    \/ \E key_path \in ReadPaths, default_value \in Values :
          GetValueOr(key_path, default_value)
    \/ \E key_path \in ReadPaths, default_value \in Values :
          ShadowGetValueOr(key_path, default_value)

SpecDefault == InitShadow /\ [][NextDefault]_vars

\* C24: get_value_or(p, d), on a Settings and on a ShadowSettings, returns
\* the value get_value(p) returns when that is Some, and wrap(d) when it is
\* None, and leaves the store as it was.
C24_GetValueOr ==
    /\ last.op = "get_value_or" =>
          /\ other = before
          /\ LET found == get_value(other, last.key_path)
             IN last.returned = IF found # None THEN found
                                ELSE Some(wrap(last.value[1]))
    /\ last.op = "shadow_get_value_or" =>
          /\ global = before /\ local = before_local
          /\ LET found == shadow_get_value(global, local, last.key_path)
             IN last.returned = IF found # None THEN found
                                ELSE Some(wrap(last.value[1]))

\* get_value_or has returned a stored value that is not the default it was
\* given
C24_Witness ==
    /\ last.op = "get_value_or"
    /\ get_value(other, last.key_path) # None
    /\ last.returned # Some(wrap(last.value[1]))

(***************************************************************************)
(* The order of writes: two set_value calls one after the other on a       *)
(* Settings, and from_flat, which writes the entries of a flat Settings in *)
(* the order its HashMap yields them.                                      *)
(***************************************************************************)
MaxOrderOps == 2
MaxFlatKeys == 3

\* the flat Settings from_flat is given: up to MaxFlatKeys whole key paths
\* as top-level keys, each with a value that is not Complex
FlatKeys == TreePaths
FlatTrees ==
    UNION { [S -> { wrap(v) : v \in Values }] :
              S \in { T \in SUBSET FlatKeys : Cardinality(T) <= MaxFlatKeys } }

\* self.set_value(p, v) followed by self.set_value(q, w)
SetValuePair(p, v, q, w) ==
    /\ last.op \in {"new", "build"}
    /\ LET first == set_value(global, p, v)
           second == set_value(first.global, q, w)
       IN /\ global' = second.global
          /\ last' = Call("set_value_pair", <<p, q>>, <<v, w>>,
                          <<first.result, second.result>>, None)
    /\ before' = global
    /\ UNCHANGED <<other, nOps>>
    /\ UNCHANGED shadow
    /\ UNCHANGED files

\* Settings::from_flat(flat_hash), which starts from its own Settings::new
FromFlatOf(flat_hash) ==
    /\ last.op = "new"
    /\ \E order \in Orders(DOMAIN flat_hash) :
          last' = Call("from_flat", <<>>, Some(flat_hash), "Ok",
                       from_flat(flat_hash, order))
    /\ UNCHANGED <<global, other, before, nOps>>
    /\ UNCHANGED shadow
    /\ UNCHANGED files

NextOrder ==
    \/ \E key_path \in TreePaths, value \in FlatValues :
          OperandSetValue("self", key_path, value, MaxOrderOps)
    \/ \E p \in TreePaths, q \in TreePaths, v \in FlatValues, w \in FlatValues :
          SetValuePair(p, v, q, w)
    \/ \E flat_hash \in FlatTrees : FromFlatOf(flat_hash)

SpecOrder == Init /\ [][NextOrder]_vars

\* no key of the flat map is a strict segment-prefix of another
NoStrictPrefix(flat_hash) ==
    \A k \in DOMAIN flat_hash : \A q \in DOMAIN flat_hash :
        k # q => ~IsPrefix(k, q)

\* C25: from_flat gives the same Settings whatever the order in which the
\* entries of the flat map are met, when no key of the flat map is a strict
\* segment-prefix of another; set_value(p, v) followed by set_value(q, w)
\* gives the same tree as the two calls in the other order, from any tree,
\* when p and q are distinct and neither is a segment-prefix of the other.
C25_OrderIndependent ==
    /\ (last.op = "from_flat" /\ NoStrictPrefix(last.value[1])) =>
          \A order \in Orders(DOMAIN last.value[1]) :
              from_flat(last.value[1], order) = last.returned
    /\ (last.op = "set_value_pair"
          /\ Unrelated(last.key_path[1], last.key_path[2])) =>
          /\ last.result = <<"Ok", "Ok">>
          /\ global = set_value(set_value(before, last.key_path[2],
                                          last.value[2]).global,
                                last.key_path[1], last.value[1]).global

\* two writes below the same node of a tree that held a value there, in an
\* order that matters to neither
C25_Witness ==
    /\ last.op = "set_value_pair"
    /\ Unrelated(last.key_path[1], last.key_path[2])
    /\ split(last.key_path[1])[1] = split(last.key_path[2])[1]
    /\ before # HashNew
    /\ last.value[1] # last.value[2]
    /\ get_value(global, last.key_path[1]) = Some(wrap(last.value[1]))
    /\ get_value(global, last.key_path[2]) = Some(wrap(last.value[2]))

(***************************************************************************)
(* Any string as a key path: the empty string, dots at either end, dots in *)
(* a row.                                                                  *)
(***************************************************************************)
MaxPathOps == 2

\* the strings given as key paths: "", ".", "a", ".a", "a.", "a.a", "a..a",
\* "a.a.a" and "a.."
PathStrings ==
    { <<>>, <<Dot>>, <<"a">>, <<Dot, "a">>, <<"a", Dot>>, <<"a", Dot, "a">>,
      <<"a", Dot, Dot, "a">>, <<"a", Dot, "a", Dot, "a">>, <<"a", Dot, Dot>> }

\* self.set_value(key_path, value), a panic leaving nothing to observe
\* but itself
PathSetValue(key_path, value) ==
    /\ nOps < MaxPathOps
    /\ IF set_value_panics(key_path)
       THEN /\ last' = Call("set_value", key_path, <<value>>, "panic", None)
            /\ UNCHANGED global
       ELSE LET r == set_value(global, key_path, value)
            IN /\ global' = r.global
               /\ last' = Call("set_value", key_path, <<value>>, r.result, None)
    /\ before' = global
    /\ nOps' = nOps + 1
    /\ UNCHANGED other
    /\ UNCHANGED shadow
    /\ UNCHANGED files

\* self.delete_key(key_path)
PathDeleteKey(key_path) ==
    /\ nOps < MaxPathOps
    /\ IF delete_key_panics(key_path)
       THEN /\ last' = Call("delete_key", key_path, None, "panic", None)
            /\ UNCHANGED global
       ELSE LET r == delete_key(global, key_path)
            IN /\ global' = r.global
               /\ last' = Call("delete_key", key_path, None, "Ok", r.returned)
    /\ before' = global
    /\ nOps' = nOps + 1
    /\ UNCHANGED other
    /\ UNCHANGED shadow
    /\ UNCHANGED files

\* self.get_value(key_path)
PathGetValue(key_path) ==
    /\ last.op # "get_value"
    /\ last' = IF get_value_panics(key_path)
               THEN Call("get_value", key_path, None, "panic", None)
               ELSE Call("get_value", key_path, None, "Ok",
                         get_value(global, key_path))
    /\ before' = global
    /\ UNCHANGED <<global, other, nOps>>
    /\ UNCHANGED shadow
    /\ UNCHANGED files

NextPath ==
    \/ \E key_path \in PathStrings, value \in Values : PathSetValue(key_path, value)
    \/ \E key_path \in PathStrings : PathDeleteKey(key_path)
    \/ \E key_path \in PathStrings : PathGetValue(key_path)

SpecPath == Init /\ [][NextPath]_vars

\* the key path has an empty segment
Malformed(key_path) == \E i \in 1 .. Len(split(key_path)) : split(key_path)[i] = <<>>

\* C26: get_value, set_value and delete_key complete on every string given
\* as key path, the empty string and paths with empty segments included:
\* no index is out of bounds, no subtraction goes below zero, and
\* set_value returns Ok.
C26_PathsNeverFail ==
    last.op \in {"set_value", "delete_key", "get_value"} =>
        /\ last.result = "Ok"
        /\ split(last.key_path) # <<>>

\* a value written under a key path with an empty segment has been
\* deleted again and returned
C26_Witness ==
    /\ last.op = "delete_key"
    /\ Malformed(last.key_path)
    /\ Len(split(last.key_path)) >= 2
    /\ last.result = "Ok"
    /\ last.returned # None

(***************************************************************************)
(* A ShadowSettings whose tiers are written, deleted from and loaded, also *)
(* from a file that holds a key with a dot in it.                          *)
(***************************************************************************)
LoadedBuffers == { TreeBuffer, DottedBuffer }

\* ShadowSettings::new, or ShadowSettings::create_from a file
InitLoaded ==
    /\ \/ /\ global = HashNew
          /\ last = Call("new", <<>>, None, "Ok", None)
       \/ \E buffer \in LoadedBuffers :
             /\ create_from(buffer).result = "Ok"
             /\ global = create_from(buffer).global
             /\ last = Call("create_from", <<>>, Some(buffer), "Ok", None)
    /\ local = None
    /\ other = HashNew
    /\ before = HashNew
    /\ before_local = None
    /\ nOps = 0
    /\ ioconfig = RonFormat
    /\ global_file = None
    /\ local_file = None

NextLoaded ==
    \/ \E key_path \in ReadPaths : ShadowGetValue(key_path)
    \/ \E key_path \in TreePaths, value \in Values : SetValueLocal(key_path, value)
    \/ \E key_path \in TreePaths, value \in Values : SetValueGlobal(key_path, value)
    \/ \E key_path \in TreePaths : DeleteKeyLocal(key_path)
    \/ \E key_path \in TreePaths : DeleteKeyGlobal(key_path)
    \/ \E buffer \in LoadedBuffers : LoadGlobalFrom(buffer)
    \/ \E buffer \in LoadedBuffers : LoadLocalFrom(buffer)

SpecLoaded == InitLoaded /\ [][NextLoaded]_vars

\* the composite read at p and the read of its field k agree
FieldAgrees(p, composite, k) ==
    shadow_get_value(global, local, format_key(p, k)) = Some(composite[k])

\* C30 as stated: for every path p and key k, if get_value(p) returns a
\* Complex C and C[k] is not a Complex, then get_value(p + "." + k)
\* returns Some(C[k]).
C30_FieldsAgreeAlways ==
    \A p \in ReadPaths :
        LET found == shadow_get_value(global, local, p)
        IN (found # None /\ is_complex(found[1])) =>
              \A k \in DOMAIN found[1].hash :
                  ~is_complex(found[1].hash[k]) => FieldAgrees(p, found[1].hash, k)

\* C30: for every path p and every key k that has no dot in it, if
\* get_value(p) returns a Complex C and C[k] is not a Complex, then
\* get_value(p + "." + k) returns Some(C[k]).
C30_FieldsAgree ==
    \A p \in ReadPaths :
        LET found == shadow_get_value(global, local, p)
        IN (found # None /\ is_complex(found[1])) =>
              \A k \in DOMAIN found[1].hash :
                  (~is_complex(found[1].hash[k]) /\ Dot \notin Range(k)) =>
                      FieldAgrees(p, found[1].hash, k)

\* get_value has returned a composite of the two tiers with a value that
\* only the global tier holds and a value that both hold
C30_Witness ==
    /\ last.op = "get_value"
    /\ local # None
    /\ last.returned # None
    /\ is_complex(last.returned[1])
    /\ LET in_local == get_value(local[1], last.key_path)
           in_global == get_value(global, last.key_path)
       IN /\ in_local # None /\ is_complex(in_local[1])
          /\ in_global # None /\ is_complex(in_global[1])
          /\ \E k \in DOMAIN in_global[1].hash :
                /\ k \notin DOMAIN in_local[1].hash
                /\ ~is_complex(in_global[1].hash[k])
          /\ \E k \in DOMAIN in_global[1].hash :
                /\ k \in DOMAIN in_local[1].hash
                /\ ~is_complex(in_local[1].hash[k])
                /\ in_local[1].hash[k] # in_global[1].hash[k]

(***************************************************************************)
(* The Settings of src/settings.rs, the one the File of src/lib.rs uses:   *)
(* its map is the field parts.                                             *)
(***************************************************************************)
MaxLegacyOps == 2

\* how the crate is built: with overflow checks (debug) or without (release)
Builds == { "debug", "release" }

\* usize::MAX + 1 for the narrowest usize Rust has (16 bits); a wider usize
\* wraps to a larger index still
UsizeModulus == 65536

\* Settings::get_raw
legacy_get_raw(self_parts, key_path) ==
    LET path_tree == split(key_path)
        RECURSIVE walk(_, _)
        walk(i, subtree) ==
            IF i > Len(path_tree) THEN Some(subtree)
            ELSE IF is_complex(subtree)
                 THEN IF path_tree[i] \in DOMAIN subtree.hash
                      THEN walk(i + 1, subtree.hash[path_tree[i]])
                      ELSE None
                 ELSE None
    IN IF path_tree[1] \in DOMAIN self_parts
       THEN walk(2, self_parts[path_tree[1]])
       ELSE None

\* Settings::get_value
legacy_get_value(self_parts, key_path) == legacy_get_raw(self_parts, key_path)

\* Settings::set_value: the extraction loop is the one of
\* structs/settings.rs; the value is then inserted into
\* parts[path_tree.len()-2], a usize expression that goes below zero for a
\* single segment: the subtraction panics with overflow checks, and wraps
\* to an index past the end of the vector without them
legacy_set_value(self_parts, key_path, value, build) ==
    LET path_tree == split(key_path)
        n == Len(path_tree)
        first == extract_first(self_parts, path_tree)
        parts == extract(path_tree, 2, first.vec, TypeComplex(HashNew))
        index == (n - 2) % UsizeModulus
    IN IF n - 2 < 0 /\ build = "debug"
       THEN [parts |-> first.global, result |-> "panic_overflow"]
       ELSE IF index >= Len(parts)
       THEN [parts |-> first.global, result |-> "panic_index"]
       ELSE LET parts_two == parts[index + 1]
                written ==
                    IF is_complex(parts_two)
                    THEN [parts EXCEPT ![index + 1] =
                            TypeComplex(HashInsert(parts_two.hash, path_tree[n],
                                                   wrap(value)))]
                    ELSE parts
                built == rebuild(path_tree, written)
            IN [parts |-> HashInsert(first.global, path_tree[1], built[1]),
                result |-> "Ok"]

\* Settings::is_flat
legacy_is_flat(self_parts) ==
    IF \E key \in DOMAIN self_parts : ~is_complex(self_parts[key]) THEN FALSE
    ELSE IF Cardinality(DOMAIN self_parts) > 0 THEN TRUE
    ELSE FALSE

\* the map the test of get_value gives its Settings: values at top level
TestHash ==
    HashInsert(HashInsert(HashNew, KeyA, wrap(NativeI32(23))),
               KeyB, wrap(NativeBool(TRUE)))

\* Settings::new, or a Settings made of a map as in the tests
InitLegacy ==
    /\ global \in { HashNew, TestHash }
    /\ other = HashNew
    /\ before = HashNew
    /\ last = Call("new", <<>>, None, "Ok", None)
    /\ nOps = 0
    /\ local = None
    /\ before_local = None
    /\ ioconfig = TomlFormat
    /\ global_file = None
    /\ local_file = None

\* a panic ends the program
Running == last.result \notin { "panic_overflow", "panic_index" }

\* self.set_value(key_path, value)
LegacySetValue(key_path, value, build) ==
    /\ Running
    /\ nOps < MaxLegacyOps
    /\ LET r == legacy_set_value(global, key_path, value, build)
       IN /\ global' = r.parts
          /\ last' = Call("legacy_set_value", key_path, <<value>>, r.result, None)
    /\ before' = global
    /\ nOps' = nOps + 1
    /\ UNCHANGED other
    /\ UNCHANGED shadow
    /\ UNCHANGED files

\* self.get_value(key_path)
LegacyGetValue(key_path) ==
    /\ Running
    /\ last.op \in { "new", "legacy_set_value" }
    /\ last' = Call("legacy_get_value", key_path, None, "Ok",
                    legacy_get_value(global, key_path))
    /\ before' = global
    /\ UNCHANGED <<global, other, nOps>>
    /\ UNCHANGED shadow
    /\ UNCHANGED files

\* self.is_flat()
LegacyIsFlat ==
    /\ Running
    /\ last.op \in { "new", "legacy_set_value" }
    /\ last' = Call("legacy_is_flat", <<>>, None, "Ok", legacy_is_flat(global))
    /\ before' = global
    /\ UNCHANGED <<global, other, nOps>>
    /\ UNCHANGED shadow
    /\ UNCHANGED files

NextLegacy ==
    \/ \E key_path \in TreePaths, value \in Values, build \in Builds :
          LegacySetValue(key_path, value, build)
    \/ \E key_path \in ReadPaths : LegacyGetValue(key_path)
    \/ LegacyIsFlat

SpecLegacy == InitLegacy /\ [][NextLegacy]_vars

\* C28: set_value with a key path of one segment returns Ok without a
\* panic and stores the value at the top level, where get_value finds it.
C28_SingleSegmentSet ==
    (last.op = "legacy_set_value" /\ Len(split(last.key_path)) = 1) =>
        /\ last.result = "Ok"
        /\ legacy_get_value(global, last.key_path) = Some(wrap(last.value[1]))

\* C29: is_flat returns true exactly when the tree has at least one entry
\* and no top-level value is a Complex.
C29_IsFlatAsDocumented ==
    last.op = "legacy_is_flat" =>
        (last.returned <=>
            /\ DOMAIN global # {}
            /\ \A key \in DOMAIN global : ~is_complex(global[key]))

====
